---- MODULE Spec2Model ----
(***************************************************************************)
(* snapraid-btrfs-runner: the command runner (snapraid_btrfs_command with  *)
(* its two tee_log threads), the step sequence of run(), main()'s          *)
(* catch-all handler and finish().                                         *)
(*                                                                         *)
(* A text line is a sequence of atoms: a word, " " (one space) or "\n".    *)
(***************************************************************************)
EXTENDS Integers, Sequences, FiniteSets, TLC

VARIABLES
    config,        \* the consolidated configuration (global config)
    env,           \* what shutil.which / os.path.isfile answer
    pc,            \* position in main() / run()
    cpc,           \* position in snapraid_btrfs_command
    command,       \* the command of the running snapraid_btrfs_command
    allow,         \* its allow_statuscodes
    child,         \* the child process p
    pipe,          \* p.stdout / p.stderr: buffered lines, write end closed
    tee,           \* the two tee_thread's: state and line in hand
    acc,           \* the out_lines list of each tee_thread
    ret,           \* what p.wait() returned
    res,           \* how snapraid_btrfs_command ended: return or raise
    diff_results,  \* the four diff counts
    raised,        \* the exception that is propagating
    frame,         \* the part of main() executing: its try body or its handler
    is_success,    \* argument of the pending finish()
    log,           \* the records the root logger handled
    procs,         \* history: the children spawned, in order
    caught,        \* history: where each CalledProcessError was caught
    finished,      \* history: the arguments finish() was called with
    exitStatus,    \* history: the exit status of the process
    snapraid_btrfs_args_extend,  \* run()'s dict of snapraid-btrfs flags
    notified       \* history: the calls of send_email and
                   \* send_discord_notification

vars == <<config, env, pc, cpc, command, allow, child, pipe, tee, acc, ret,
          res, diff_results, raised, frame, is_success, log, procs, caught,
          finished, exitStatus, snapraid_btrfs_args_extend, notified>>

runnerVars == <<cpc, command, allow, child, pipe, tee, acc, ret, res>>

----------------------------------------------------------------------------
(* Bounds *)

MaxErr == 1     \* most stderr lines a child writes
PipeCap == 1    \* lines a pipe buffers before the child's write blocks
MaxLines == 2   \* most lines of a diff output given to the classification

----------------------------------------------------------------------------
(* Text *)

Streams == {"stdout", "stderr"}

Whitespace == {" ", "\t", "\n"}

Kinds == <<"add", "remove", "move", "update">>

\* str.rstrip(): the line without its trailing whitespace
RECURSIVE rstrip(_)
rstrip(line) ==
    IF line # <<>> /\ line[Len(line)] \in Whitespace
    THEN rstrip(SubSeq(line, 1, Len(line) - 1))
    ELSE line

\* line.split()[0]: the first run of characters that are not whitespace
RECURSIVE FirstToken_whitespace(_)
FirstToken_whitespace(line) ==
    IF line = <<>> THEN <<>>
    ELSE IF Head(line) \in Whitespace
         THEN (IF \A i \in DOMAIN line : line[i] \in Whitespace THEN <<>>
               ELSE FirstToken_whitespace(Tail(line)))
         ELSE IF Len(line) = 1 \/ line[2] \in Whitespace THEN <<Head(line)>>
              ELSE <<Head(line)>> \o FirstToken_whitespace(Tail(line))

\* line.split(" ")[0]: the text before the first space
RECURSIVE FirstToken(_)
FirstToken(line) ==
    IF line = <<>> \/ Head(line) = " "
    THEN <<>>
    ELSE <<Head(line)>> \o FirstToken(Tail(line))

\* Counter(line.split(" ")[0] for line in diff_out)[kind]
Counter(lines, kind) ==
    Cardinality({i \in DOMAIN lines : FirstToken(lines[i]) = <<kind>>})

\* dict((x, diff_results[x]) for x in ["add", "remove", "move", "update"])
Classify(lines) ==
    [k \in {Kinds[i] : i \in DOMAIN Kinds} |-> Counter(lines, k)]

----------------------------------------------------------------------------
(* Logging *)

OUTPUT == 15
OUTERR == 25
INFO == 20
WARNING == 30
ERROR == 40

\* the root logger set to INFO instead
RootLevel_info == INFO

\* root_logger.setLevel(logging.OUTPUT)
RootLevel == OUTPUT

\* logging.log(level, msg) on the root logger
Logged(l, level, msg) ==
    IF level >= RootLevel THEN Append(l, [level |-> level, msg |-> msg]) ELSE l

TeeLevel(s) == IF s = "stdout" THEN OUTPUT ELSE OUTERR

----------------------------------------------------------------------------
(* The children the model spawns *)

ExitCodes == {-9, 0, 1, 2}

ScenarioDiff == << <<"add", " ", "a", "\n">>,
                   <<"add", " ", "b", "\n">>,
                   <<"remove", " ", "c", "\n">> >>

DiffOutputs ==
    { <<>>,
      ScenarioDiff,
      << <<"remove", " ", "a", "\n">>, <<"remove", " ", "b", "\n">> >>,
      << <<"update", " ", "a", "\n">>, <<"equal", " ", "b", "\n">> >>,
      << <<"move", " ", "a", "\n">>, <<" ", "remove", " ", "b", "\n">> >>,
      << <<"\n">>, <<"remove", "\n">> >> }

Warnings == << <<"WARNING!", " ", "\n">>, <<"msg", " ", "a">>, <<"msg", " ", "b", "\n">> >>

ErrOutputs == {SubSeq(Warnings, 1, n) : n \in 0..MaxErr}

Progress == << <<"Done", "\n">> >>

\* what a child of the given command may write and exit with
ChildScripts(c) ==
    IF c = "diff"
    THEN [stdout : DiffOutputs, stderr : ErrOutputs, ret : ExitCodes]
    ELSE [stdout : {Progress}, stderr : {<<>>}, ret : ExitCodes]

NoChild == [state |-> "none", stdout |-> <<>>, stderr |-> <<>>, ret |-> 0]

NoRes == [kind |-> "none", out |-> <<>>, returncode |-> 0, cmd |-> <<>>]

NoExc == [cls |-> "none", returncode |-> 0, cmd |-> <<>>, code |-> 0]

----------------------------------------------------------------------------
(* Exception classes *)

\* "except Exception" catching what "except BaseException" would
Subclasses_base(cls) ==
    CASE cls = "Exception" -> {"Exception", "CalledProcessError",
                               "SMTPException", "AttributeError", "SystemExit"}
      [] cls = "CalledProcessError" -> {"CalledProcessError"}
      [] OTHER -> {cls}

\* the classes an "except cls" clause catches
Subclasses(cls) ==
    CASE cls = "Exception" -> {"Exception", "CalledProcessError",
                               "SMTPException", "AttributeError"}
      [] cls = "CalledProcessError" -> {"CalledProcessError"}
      [] OTHER -> {cls}

Catches(cls, exc) == exc.cls \in Subclasses(cls)

----------------------------------------------------------------------------
(* Initial state: configuration loaded, logger set up, main() about to     *)
(* call run()                                                              *)

Thresholds == {-1, 0, 1, 5}

\* the step switches and the delete threshold
StepConfigs == [touch : BOOLEAN, pool : BOOLEAN, cleanup : BOOLEAN,
                scrub : BOOLEAN, deletethreshold : Thresholds]

\* the other options: paths, no extra flags, a numeric scrub plan, no
\* notifier
Defaults ==
    [snapraid_config |-> <<"snapraid.conf">>,
     snapraid_executable |-> <<"snapraid">>,
     snapper_executable |-> <<"snapper">>,
     snapraid_btrfs_executable |-> <<"snapraid-btrfs">>,
     snapper_configs |-> <<>>,
     snapper_configs_file |-> <<>>,
     pool_dir |-> <<>>,
     plan |-> <<"1", "2">>,
     older_than |-> 10,
     email_sendon |-> <<>>,
     email_short |-> FALSE,
     email_maxsize |-> 0,
     smtp_host |-> <<>>,
     discord_enabled |-> <<>>,
     discord_sendon |-> <<>>]

Configs == {c @@ Defaults : c \in StepConfigs}

Envs == [snapraid : BOOLEAN, conf : BOOLEAN, snapraid_btrfs : BOOLEAN,
         snapper : BOOLEAN]

NoPipes == [s \in Streams |-> [buf |-> <<>>, closed |-> FALSE]]

NoTees == [s \in Streams |-> [state |-> "unstarted", line |-> <<>>]]

NoLines == [s \in Streams |-> <<>>]

NoCounts == [k \in {Kinds[i] : i \in DOMAIN Kinds} |-> 0]

Init ==
    /\ config \in Configs
    /\ env \in Envs
    /\ pc = "preflight"
    /\ cpc = "idle"
    /\ command = "none"
    /\ allow = {}
    /\ child = NoChild
    /\ pipe = NoPipes
    /\ tee = NoTees
    /\ acc = NoLines
    /\ ret = 0
    /\ res = NoRes
    /\ diff_results = NoCounts
    /\ raised = NoExc
    /\ frame = "run"
    /\ is_success = FALSE
    /\ log = <<>>
    /\ procs = <<>>
    /\ caught = <<>>
    /\ finished = <<>>
    /\ exitStatus = <<>>
    /\ snapraid_btrfs_args_extend = <<>>
    /\ notified = <<>>

----------------------------------------------------------------------------
(* snapraid_btrfs_command and its child                                    *)

\* a dict: its items in insertion order, each a key, a value and the
\* value's type
Item(k, v, t) == [k |-> k, v |-> v, t |-> t]

\* d[k] = v
DictSet(d, k, v, t) ==
    IF \E i \in DOMAIN d : d[i].k = k
    THEN [i \in DOMAIN d |-> IF d[i].k = k THEN Item(k, v, t) ELSE d[i]]
    ELSE Append(d, Item(k, v, t))

\* str(v)
Str(item) == IF item.t = "int" THEN <<ToString(item.v)>> ELSE item.v

\* for (k, v) in d.items(): arguments.extend(["--" + k, str(v)])
RECURSIVE Flags(_)
Flags(d) ==
    IF d = <<>> THEN <<>>
    ELSE << <<"--", Head(d).k>>, Str(Head(d)) >> \o Flags(Tail(d))

\* the command name put before the snapraid-btrfs flags
Argv_commandfirst(c, snapraid_args, snapraid_btrfs_args) ==
    <<config.snapraid_btrfs_executable>> \o << <<c>> >>
    \o << <<"--quiet">>,
          <<"--conf">>, config.snapraid_config,
          <<"--snapper-path">>, config.snapper_executable,
          <<"--snapraid-path">>, config.snapraid_executable >>
    \o Flags(snapraid_btrfs_args)
    \o (IF c = "cleanup" THEN <<>> ELSE << <<"--quiet">> >>)
    \o Flags(snapraid_args)

\* the argument vector given to subprocess.Popen
Argv(c, snapraid_args, snapraid_btrfs_args) ==
    LET snapraid_btrfs_arguments ==
            << <<"--quiet">>,
               <<"--conf">>, config.snapraid_config,
               <<"--snapper-path">>, config.snapper_executable,
               <<"--snapraid-path">>, config.snapraid_executable >>
            \o Flags(snapraid_btrfs_args)
        snapraid_arguments ==
            (IF c = "cleanup" THEN <<>> ELSE << <<"--quiet">> >>)
            \o Flags(snapraid_args)
    IN  <<config.snapraid_btrfs_executable>> \o snapraid_btrfs_arguments
        \o << <<c>> >> \o snapraid_arguments

\* subprocess.Popen(...) and "out = []": the call of snapraid_btrfs_command
Popen(c, snapraid_args, snapraid_btrfs_args, a) ==
    /\ cpc = "idle"
    /\ \E script \in ChildScripts(c) :
          /\ child' = [state |-> "running", stdout |-> script.stdout,
                       stderr |-> script.stderr, ret |-> script.ret]
          /\ procs' = Append(procs,
                       [cmd |-> c, stdout |-> script.stdout,
                        stderr |-> script.stderr, ret |-> script.ret,
                        snapraid_args |-> snapraid_args,
                        snapraid_btrfs_args |-> snapraid_btrfs_args,
                        argv |-> Argv(c, snapraid_args, snapraid_btrfs_args)])
    /\ command' = c
    /\ allow' = a
    /\ pipe' = NoPipes
    /\ tee' = NoTees
    /\ acc' = NoLines
    /\ res' = NoRes
    /\ cpc' = "tee_stdout"
    /\ UNCHANGED ret

\* the child writes its next line to one of its streams
ChildWrite(s) ==
    /\ child.state = "running"
    /\ child[s] # <<>>
    /\ Len(pipe[s].buf) < PipeCap
    /\ pipe' = [pipe EXCEPT ![s].buf = Append(@, Head(child[s]))]
    /\ child' = [child EXCEPT ![s] = Tail(@)]
    /\ UNCHANGED <<config, env, pc, cpc, command, allow, tee, acc, ret, res,
                   diff_results, raised, frame, is_success, log, procs,
                   caught, finished, exitStatus>>
    /\ UNCHANGED <<snapraid_btrfs_args_extend, notified>>

\* the child has written everything: its streams close and it exits
ChildExit ==
    /\ child.state = "running"
    /\ child.stdout = <<>>
    /\ child.stderr = <<>>
    /\ child' = [child EXCEPT !.state = "exited"]
    /\ pipe' = [s \in Streams |-> [pipe[s] EXCEPT !.closed = TRUE]]
    /\ UNCHANGED <<config, env, pc, cpc, command, allow, tee, acc, ret, res,
                   diff_results, raised, frame, is_success, log, procs,
                   caught, finished, exitStatus>>
    /\ UNCHANGED <<snapraid_btrfs_args_extend, notified>>

\* tee_log(p.stdout, out, logging.OUTPUT) / tee_log(p.stderr, [], ...):
\* the thread is created and started
TeeLog(s) ==
    /\ cpc = "tee_" \o s
    /\ tee' = [tee EXCEPT ![s].state = "reading"]
    /\ cpc' = IF s = "stdout" THEN "tee_stderr" ELSE "join_stdout"
    /\ UNCHANGED <<config, env, pc, command, allow, child, pipe, acc, ret,
                   res, diff_results, raised, frame, is_success, log, procs,
                   caught, finished, exitStatus>>
    /\ UNCHANGED <<snapraid_btrfs_args_extend, notified>>

\* stdout is read only once the stderr thread has finished
TeeRead_sequential(s) ==
    /\ tee[s].state = "reading"
    /\ s = "stdout" => tee["stderr"].state = "done"
    /\ \/ /\ pipe[s].buf # <<>>
          /\ tee' = [tee EXCEPT ![s] = [state |-> "logging",
                                        line |-> Head(pipe[s].buf)]]
          /\ pipe' = [pipe EXCEPT ![s].buf = Tail(@)]
       \/ /\ pipe[s].buf = <<>>
          /\ pipe[s].closed
          /\ tee' = [tee EXCEPT ![s].state = "done"]
          /\ UNCHANGED pipe
    /\ UNCHANGED <<config, env, pc, cpc, command, allow, child, acc, ret,
                   res, diff_results, raised, frame, is_success, log, procs,
                   caught, finished, exitStatus>>
    /\ UNCHANGED <<snapraid_btrfs_args_extend, notified>>

\* tee_thread: infile.readline() returns a line, or "" at end of stream
\* and then infile.close() ends the thread
TeeRead(s) ==
    /\ tee[s].state = "reading"
    /\ \/ /\ pipe[s].buf # <<>>
          /\ tee' = [tee EXCEPT ![s] = [state |-> "logging",
                                        line |-> Head(pipe[s].buf)]]
          /\ pipe' = [pipe EXCEPT ![s].buf = Tail(@)]
       \/ /\ pipe[s].buf = <<>>
          /\ pipe[s].closed
          /\ tee' = [tee EXCEPT ![s].state = "done"]
          /\ UNCHANGED pipe
    /\ UNCHANGED <<config, env, pc, cpc, command, allow, child, acc, ret,
                   res, diff_results, raised, frame, is_success, log, procs,
                   caught, finished, exitStatus>>
    /\ UNCHANGED <<snapraid_btrfs_args_extend, notified>>

\* tee_thread: logging.log(log_level, line.rstrip()); out_lines.append(line)
TeeEmit(s) ==
    /\ tee[s].state = "logging"
    /\ log' = Logged(log, TeeLevel(s), rstrip(tee[s].line))
    /\ acc' = [acc EXCEPT ![s] = Append(@, tee[s].line)]
    /\ tee' = [tee EXCEPT ![s] = [state |-> "reading", line |-> <<>>]]
    /\ UNCHANGED <<config, env, pc, cpc, command, allow, child, pipe, ret,
                   res, diff_results, raised, frame, is_success, procs,
                   caught, finished, exitStatus>>
    /\ UNCHANGED <<snapraid_btrfs_args_extend, notified>>

\* the parent does not wait for the thread
Joined_nojoin(s) == TRUE

\* the thread t.join() lets the parent past
Joined(s) == tee[s].state = "done"

\* for t in threads: t.join()
Join(s) ==
    /\ cpc = "join_" \o s
    /\ Joined(s)
    /\ cpc' = IF s = "stdout" THEN "join_stderr" ELSE "wait"
    /\ UNCHANGED <<config, env, pc, command, allow, child, pipe, tee, acc,
                   ret, res, diff_results, raised, frame, is_success, log,
                   procs, caught, finished, exitStatus>>
    /\ UNCHANGED <<snapraid_btrfs_args_extend, notified>>

\* ret = p.wait(); time.sleep(0.3)
Wait ==
    /\ cpc = "wait"
    /\ child.state = "exited"
    /\ ret' = child.ret
    /\ child' = [child EXCEPT !.state = "reaped"]
    /\ cpc' = "classify"
    /\ UNCHANGED <<config, env, pc, command, allow, pipe, tee, acc, res,
                   diff_results, raised, frame, is_success, log, procs,
                   caught, finished, exitStatus>>
    /\ UNCHANGED <<snapraid_btrfs_args_extend, notified>>

\* allow_statuscodes ignored
Allowed_zero(r, a) == r = 0

\* ret == 0 or ret in allow_statuscodes
Allowed(r, a) == r = 0 \/ r \in a

\* the exit code is never turned into an error
Outcome_noraise(r, a, c, out) ==
    [kind |-> "return", out |-> out, returncode |-> 0, cmd |-> <<>>]

\* return out / raise subprocess.CalledProcessError(ret, "snapraid-btrfs " + command)
Outcome(r, a, c, out) ==
    IF Allowed(r, a)
    THEN [kind |-> "return", out |-> out, returncode |-> 0, cmd |-> <<>>]
    ELSE [kind |-> "raise", out |-> <<>>, returncode |-> r,
          cmd |-> <<"snapraid-btrfs", " ", c>>]

\* the end of snapraid_btrfs_command
Return ==
    /\ cpc = "classify"
    /\ res' = Outcome(ret, allow, command, acc["stdout"])
    /\ cpc' = "returned"
    /\ UNCHANGED <<config, env, pc, command, allow, child, pipe, tee, acc,
                   ret, diff_results, raised, frame, is_success, log, procs,
                   caught, finished, exitStatus>>
    /\ UNCHANGED <<snapraid_btrfs_args_extend, notified>>

----------------------------------------------------------------------------
(* run()                                                                   *)

Rule == <<"****">>

\* the snapper check left out
PreflightError_nosnapper(e) ==
    IF ~e.snapraid THEN <<"The configured snapraid executable does not exist">>
    ELSE IF ~e.conf THEN <<"Snapraid config does not exist">>
    ELSE IF ~e.snapraid_btrfs THEN <<"Snapraid-btrfs executable does not exist">>
    ELSE <<>>

\* the first failing check of run()'s preamble, <<>> when all pass
PreflightError(e) ==
    IF ~e.snapraid THEN <<"The configured snapraid executable does not exist">>
    ELSE IF ~e.conf THEN <<"Snapraid config does not exist">>
    ELSE IF ~e.snapraid_btrfs THEN <<"Snapraid-btrfs executable does not exist">>
    ELSE IF ~e.snapper THEN <<"Snapper executable does not exist">>
    ELSE <<>>

\* snapraid_btrfs_args_extend as run() builds it before the first command
ArgsExtend(cfg) ==
    LET d1 == IF Len(cfg.snapper_configs) > 0
              THEN DictSet(<<>>, "snapper-configs", cfg.snapper_configs, "str")
              ELSE <<>>
    IN  IF Len(cfg.snapper_configs_file) > 0
        THEN DictSet(d1, "snapper-configs-file", cfg.snapper_configs_file, "str")
        ELSE d1

\* the four checks at the head of run(), then snapraid_btrfs_args_extend
Preflight ==
    /\ pc = "preflight"
    /\ LET started == Logged(log, INFO, <<"Run started">>)
       IN  IF PreflightError(env) # <<>>
           THEN /\ log' = Logged(started, ERROR, PreflightError(env))
                /\ is_success' = FALSE
                /\ pc' = "finish"
                /\ UNCHANGED snapraid_btrfs_args_extend
           ELSE /\ log' = started
                /\ snapraid_btrfs_args_extend' = ArgsExtend(config)
                /\ pc' = "touch"
                /\ UNCHANGED is_success
    /\ UNCHANGED <<config, env, runnerVars, diff_results, raised, frame,
                   procs, caught, finished, exitStatus>>
    /\ UNCHANGED notified

\* the exception snapraid_btrfs_command raised
CalledProcessError(r) ==
    [cls |-> "CalledProcessError", returncode |-> r.returncode,
     cmd |-> r.cmd, code |-> 0]

\* str(e) of a CalledProcessError
ErrorText(e) ==
    <<"Command">> \o e.cmd \o <<"returned non-zero exit status",
                                ToString(e.returncode)>>

\* no except clause around the scrub call
Handler_noscrub(c) ==
    IF c \in {"sync", "pool", "cleanup"}
    THEN "CalledProcessError"
    ELSE "none"

\* the except clause around the call of each command in run()
Handler(c) ==
    IF c \in {"sync", "pool", "cleanup", "scrub"}
    THEN "CalledProcessError"
    ELSE "none"

\* the call of a command raised: its except clause logs the error and
\* calls finish(False), or the exception leaves run()
OnRaise(c) ==
    IF Catches(Handler(c), CalledProcessError(res))
    THEN /\ log' = Logged(log, ERROR, ErrorText(CalledProcessError(res)))
         /\ caught' = Append(caught, [cmd |-> c, by |-> "run"])
         /\ is_success' = FALSE
         /\ pc' = "finish"
         /\ UNCHANGED raised
    ELSE /\ raised' = CalledProcessError(res)
         /\ pc' = "unwind"
         /\ UNCHANGED <<log, caught, is_success>>

\* the call of a command returned: the separator is logged
OnReturn(next) ==
    /\ log' = Logged(log, INFO, Rule)
    /\ pc' = next
    /\ UNCHANGED <<caught, is_success, raised>>

\* if config["snapraid"]["touch"]: snapraid_btrfs_command("touch", ...)
TouchStep ==
    /\ pc = "touch"
    /\ IF config.touch
       THEN /\ log' = Logged(log, INFO, <<"Running touch...">>)
            /\ Popen("touch", <<>>, snapraid_btrfs_args_extend, {})
            /\ pc' = "touch_ret"
       ELSE /\ pc' = "diff"
            /\ UNCHANGED <<log, runnerVars, procs>>
    /\ UNCHANGED <<config, env, diff_results, raised, frame, is_success,
                   caught, finished, exitStatus>>
    /\ UNCHANGED <<snapraid_btrfs_args_extend, notified>>

TouchRet ==
    /\ pc = "touch_ret"
    /\ cpc = "returned"
    /\ cpc' = "idle"
    /\ IF res.kind = "raise" THEN OnRaise("touch") ELSE OnReturn("diff")
    /\ UNCHANGED <<config, env, command, allow, child, pipe, tee, acc, ret,
                   res, diff_results, frame, procs, finished, exitStatus>>
    /\ UNCHANGED <<snapraid_btrfs_args_extend, notified>>

\* diff_out = snapraid_btrfs_command("diff", ..., allow_statuscodes=[2])
DiffStep ==
    /\ pc = "diff"
    /\ log' = Logged(log, INFO, <<"Running diff...">>)
    /\ Popen("diff", <<>>, snapraid_btrfs_args_extend, {2})
    /\ pc' = "diff_ret"
    /\ UNCHANGED <<config, env, diff_results, raised, frame, is_success,
                   caught, finished, exitStatus>>
    /\ UNCHANGED <<snapraid_btrfs_args_extend, notified>>

\* the comparison with the threshold not strict
ThresholdExceeded_ge(threshold, counts) ==
    threshold >= 0 /\ counts["remove"] >= threshold

\* config["snapraid"]["deletethreshold"] >= 0 and
\* diff_results["remove"] > config["snapraid"]["deletethreshold"]
ThresholdExceeded(threshold, counts) ==
    threshold >= 0 /\ counts["remove"] > threshold

\* the diff counts, the "Diff results" line and the threshold guard
DiffRet ==
    /\ pc = "diff_ret"
    /\ cpc = "returned"
    /\ cpc' = "idle"
    /\ IF res.kind = "raise"
       THEN /\ OnRaise("diff")
            /\ UNCHANGED diff_results
       ELSE LET counts == Classify(res.out)
                results == Logged(Logged(log, INFO, Rule), INFO,
                               <<"Diff results:">> \o
                               [i \in DOMAIN Kinds |-> ToString(counts[Kinds[i]])])
            IN  /\ diff_results' = counts
                /\ IF ThresholdExceeded(config.deletethreshold, counts)
                   THEN /\ log' = Logged(results, ERROR,
                                     <<"Deleted files exceed delete threshold, aborting">>)
                        /\ is_success' = FALSE
                        /\ pc' = "finish"
                   ELSE /\ log' = results
                        /\ pc' = "sync"
                        /\ UNCHANGED is_success
                /\ UNCHANGED <<caught, raised>>
    /\ UNCHANGED <<config, env, command, allow, child, pipe, tee, acc, ret,
                   res, frame, procs, finished, exitStatus>>
    /\ UNCHANGED <<snapraid_btrfs_args_extend, notified>>

\* the update count left out of the sum
NoChanges_noupdate(counts) ==
    counts["remove"] + counts["add"] + counts["move"] = 0

\* remove + add + move + update == 0
NoChanges(counts) ==
    counts["remove"] + counts["add"] + counts["move"] + counts["update"] = 0

SyncStep ==
    /\ pc = "sync"
    /\ IF NoChanges(diff_results)
       THEN /\ log' = Logged(log, INFO, <<"No changes detected, no sync required">>)
            /\ pc' = "pool"
            /\ UNCHANGED <<runnerVars, procs>>
       ELSE /\ log' = Logged(log, INFO, <<"Running sync...">>)
            /\ Popen("sync", <<>>, snapraid_btrfs_args_extend, {})
            /\ pc' = "sync_ret"
    /\ UNCHANGED <<config, env, diff_results, raised, frame, is_success,
                   caught, finished, exitStatus>>
    /\ UNCHANGED <<snapraid_btrfs_args_extend, notified>>

SyncRet ==
    /\ pc = "sync_ret"
    /\ cpc = "returned"
    /\ cpc' = "idle"
    /\ IF res.kind = "raise" THEN OnRaise("sync") ELSE OnReturn("pool")
    /\ UNCHANGED <<config, env, command, allow, child, pipe, tee, acc, ret,
                   res, diff_results, frame, procs, finished, exitStatus>>
    /\ UNCHANGED <<snapraid_btrfs_args_extend, notified>>

\* snapraid_btrfs_args_extend["pool-dir"] = config["snapraid-btrfs"]["pool-dir"]
\* when a pool-dir is configured
WithPoolDir(d) ==
    IF Len(config.pool_dir) > 0
    THEN DictSet(d, "pool-dir", config.pool_dir, "str")
    ELSE d

\* the pool command run whether or not it is enabled
PoolStep_always ==
    /\ pc = "pool"
    /\ log' = Logged(log, INFO, <<"Running pool...">>)
    /\ snapraid_btrfs_args_extend' = WithPoolDir(snapraid_btrfs_args_extend)
    /\ Popen("pool", <<>>, WithPoolDir(snapraid_btrfs_args_extend), {})
    /\ pc' = "pool_ret"
    /\ UNCHANGED <<config, env, diff_results, raised, frame, is_success,
                   caught, finished, exitStatus>>
    /\ UNCHANGED notified

\* if config["snapraid-btrfs"]["pool"]: snapraid_btrfs_command("pool", ...)
PoolStep ==
    /\ pc = "pool"
    /\ IF config.pool
       THEN /\ log' = Logged(log, INFO, <<"Running pool...">>)
            /\ snapraid_btrfs_args_extend' =
                  WithPoolDir(snapraid_btrfs_args_extend)
            /\ Popen("pool", <<>>, WithPoolDir(snapraid_btrfs_args_extend), {})
            /\ pc' = "pool_ret"
       ELSE /\ pc' = "cleanup"
            /\ UNCHANGED <<log, runnerVars, procs,
                           snapraid_btrfs_args_extend>>
    /\ UNCHANGED <<config, env, diff_results, raised, frame, is_success,
                   caught, finished, exitStatus>>
    /\ UNCHANGED notified

PoolRet ==
    /\ pc = "pool_ret"
    /\ cpc = "returned"
    /\ cpc' = "idle"
    /\ IF res.kind = "raise" THEN OnRaise("pool") ELSE OnReturn("cleanup")
    /\ UNCHANGED <<config, env, command, allow, child, pipe, tee, acc, ret,
                   res, diff_results, frame, procs, finished, exitStatus>>
    /\ UNCHANGED <<snapraid_btrfs_args_extend, notified>>

CleanupStep ==
    /\ pc = "cleanup"
    /\ IF config.cleanup
       THEN /\ log' = Logged(log, INFO, <<"Running cleanup...">>)
            /\ Popen("cleanup", <<>>, snapraid_btrfs_args_extend, {})
            /\ pc' = "cleanup_ret"
       ELSE /\ pc' = "scrub"
            /\ UNCHANGED <<log, runnerVars, procs>>
    /\ UNCHANGED <<config, env, diff_results, raised, frame, is_success,
                   caught, finished, exitStatus>>
    /\ UNCHANGED <<snapraid_btrfs_args_extend, notified>>

CleanupRet ==
    /\ pc = "cleanup_ret"
    /\ cpc = "returned"
    /\ cpc' = "idle"
    /\ IF res.kind = "raise" THEN OnRaise("cleanup") ELSE OnReturn("scrub")
    /\ UNCHANGED <<config, env, command, allow, child, pipe, tee, acc, ret,
                   res, diff_results, frame, procs, finished, exitStatus>>
    /\ UNCHANGED <<snapraid_btrfs_args_extend, notified>>

Digits == {"0", "1", "2", "3", "4", "5", "6", "7", "8", "9"}

\* str.strip()
RECURSIVE strip(_)
strip(str) ==
    IF str # <<>> /\ Head(str) \in Whitespace THEN strip(Tail(str))
    ELSE rstrip(str)

\* int(str) does not raise ValueError: an optional sign, then digits
IntParses(str) ==
    LET t == strip(str)
        u == IF t # <<>> /\ Head(t) \in {"+", "-"} THEN Tail(t) ELSE t
    IN  u # <<>> /\ \A i \in DOMAIN u : u[i] \in Digits

\* older-than passed whatever the plan is
ScrubArgs_always(plan, older_than) ==
    << Item("plan", plan, "str"), Item("older-than", older_than, "int") >>

\* snapraid_args_extend of the scrub command
ScrubArgs(plan, older_than) ==
    IF IntParses(plan)
    THEN << Item("plan", plan, "str"), Item("older-than", older_than, "int") >>
    ELSE << Item("plan", plan, "str") >>

\* the warning about an ignored older-than
ScrubLogged(l, plan, older_than) ==
    IF ~IntParses(plan) /\ older_than > 0
    THEN Logged(l, WARNING, <<"Ignoring 'older-than' config item with scrub plan">>)
    ELSE l

\* if config["scrub"]["enabled"]: snapraid_btrfs_command("scrub", ...)
ScrubStep ==
    /\ pc = "scrub"
    /\ IF config.scrub
       THEN /\ log' = ScrubLogged(Logged(log, INFO, <<"Running scrub...">>),
                                    config.plan, config.older_than)
            /\ Popen("scrub", ScrubArgs(config.plan, config.older_than),
                     snapraid_btrfs_args_extend, {})
            /\ pc' = "scrub_ret"
       ELSE /\ pc' = "alldone"
            /\ UNCHANGED <<log, runnerVars, procs>>
    /\ UNCHANGED <<config, env, diff_results, raised, frame, is_success,
                   caught, finished, exitStatus>>
    /\ UNCHANGED <<snapraid_btrfs_args_extend, notified>>

ScrubRet ==
    /\ pc = "scrub_ret"
    /\ cpc = "returned"
    /\ cpc' = "idle"
    /\ IF res.kind = "raise" THEN OnRaise("scrub") ELSE OnReturn("alldone")
    /\ UNCHANGED <<config, env, command, allow, child, pipe, tee, acc, ret,
                   res, diff_results, frame, procs, finished, exitStatus>>
    /\ UNCHANGED <<snapraid_btrfs_args_extend, notified>>

\* logging.info("All done"); finish(True)
AllDone ==
    /\ pc = "alldone"
    /\ log' = Logged(log, INFO, <<"All done">>)
    /\ is_success' = TRUE
    /\ pc' = "finish"
    /\ UNCHANGED <<config, env, runnerVars, diff_results, raised, frame,
                   procs, caught, finished, exitStatus>>
    /\ UNCHANGED <<snapraid_btrfs_args_extend, notified>>

----------------------------------------------------------------------------
(* finish() and main()                                                     *)

\* sys.exit(0) whatever the outcome
SystemExit_zero(ok) ==
    [cls |-> "SystemExit", returncode |-> 0, cmd |-> <<>>, code |-> 0]

\* sys.exit(0 if is_success else 1)
SystemExit(ok) ==
    [cls |-> "SystemExit", returncode |-> 0, cmd |-> <<>>,
     code |-> IF ok THEN 0 ELSE 1]

\* ("error", "success")[is_success]
Trigger(ok) == IF ok THEN "success" ELSE "error"

\* word in str
Contains(str, word) == \E i \in DOMAIN str : str[i] = word

\* bool(str)
Truthy(str) == Len(str) > 0

\* setup_logger created email_log: config["email"]["sendon"] is not empty
EmailLogSet == Truthy(config.email_sendon)

\* the level of email_logger
EmailLevel == IF config.email_short THEN INFO ELSE 0

LevelName(level) ==
    CASE level = OUTPUT -> "[OUTPUT]"
      [] level = OUTERR -> "[OUTERR]"
      [] level = INFO -> "[INFO  ]"
      [] level = WARNING -> "[WARNIN]"
      [] level = ERROR -> "[ERROR ]"

\* email_log.getvalue(): a formatted line for each record email_logger let
\* through
RECURSIVE Getvalue(_)
Getvalue(l) ==
    IF l = <<>> THEN <<>>
    ELSE IF Len(l) = 1
    THEN (IF l[1].level >= EmailLevel
          THEN <<"asctime", " ", LevelName(l[1].level), " ">>
               \o l[1].msg \o <<"\n">>
          ELSE <<>>)
    ELSE Getvalue(SubSeq(l, 1, Len(l) \div 2))
         \o Getvalue(SubSeq(l, Len(l) \div 2 + 1, Len(l)))

KiB == 1024

\* a slice index of a sequence of length n, as Python resolves it
PyIndex(i, n) ==
    IF i < 0 THEN (IF n + i < 0 THEN 0 ELSE n + i)
    ELSE (IF i > n THEN n ELSE i)

\* text[i:j]
Slice(text, i, j) ==
    SubSeq(text, PyIndex(i, Len(text)) + 1, PyIndex(j, Len(text)))

\* text.count("\n", i, j)
CountNewlines(text, i, j) ==
    Cardinality({k \in PyIndex(i, Len(text)) + 1 .. PyIndex(j, Len(text)) :
                    text[k] = "\n"})

\* send_email: the log as put into the mail body
Shorten(text, maxsize) ==
    IF maxsize # 0 /\ Len(text) > maxsize
    THEN <<"NOTE: Log was too big for email and was shortened", "\n", "\n">>
         \o Slice(text, 0, maxsize \div 2)
         \o <<"[...]", "LOG WAS TOO BIG",
               ToString(CountNewlines(text, maxsize \div 2, (-maxsize) \div 2)),
               "LINES REMOVED", "[...]">>
         \o Slice(text, (-maxsize) \div 2, Len(text))
    ELSE text

SMTPException ==
    [cls |-> "SMTPException", returncode |-> 0, cmd |-> <<>>, code |-> 0]

AttributeError ==
    [cls |-> "AttributeError", returncode |-> 0, cmd |-> <<>>, code |-> 0]

\* no except clause around the notifier calls
NotifierHandler_none == "none"

\* the except clause around send_email and send_discord_notification
NotifierHandler == "Exception"

\* try: ... except Exception: logging.exception(msg), for a body that raises e
Try(l, n, e, msg) ==
    IF Catches(NotifierHandler, e)
    THEN [log |-> Logged(l, ERROR, msg), notified |-> n, exc |-> NoExc]
    ELSE [log |-> l, notified |-> n, exc |-> e]

Delivery == {"delivered", "failed"}

\* the email part of finish, with send_email; smtp is what the server does
EmailStep(l, n, ok, smtp) ==
    IF Contains(config.email_sendon, Trigger(ok))
    THEN IF Len(config.smtp_host) = 0
         THEN [log |-> Logged(l, ERROR,
                         <<"Failed to send email because smtp host is not set">>),
               notified |-> Append(n, [via |-> "email", success |-> ok,
                                       text |-> <<>>, payload |-> <<>>,
                                       result |-> "no host"]),
               exc |-> NoExc]
         ELSE LET call == [via |-> "email", success |-> ok,
                           text |-> Getvalue(l),
                           payload |-> Shorten(Getvalue(l),
                                               config.email_maxsize * KiB),
                           result |-> smtp]
              IN  IF smtp = "delivered"
                  THEN [log |-> l, notified |-> Append(n, call), exc |-> NoExc]
                  ELSE Try(l, Append(n, call), SMTPException,
                           <<"Failed to send email">>)
    ELSE [log |-> l, notified |-> n, exc |-> NoExc]

\* the Discord part of finish, with send_discord_notification; http is
\* what the webhook answers
DiscordStep(l, n, ok, http) ==
    IF Truthy(config.discord_enabled)
       /\ Contains(config.discord_sendon, Trigger(ok))
    THEN IF ~EmailLogSet
         THEN Try(l, n, AttributeError,
                  <<"Failed to send Discord notification">>)
         ELSE [log |-> IF http = "delivered"
                       THEN Logged(l, INFO,
                                <<"Discord notification sent successfully.">>)
                       ELSE Logged(l, ERROR, <<"HTTP Error">>),
               notified |-> Append(n, [via |-> "discord", success |-> ok,
                                       text |-> Getvalue(l),
                                       payload |-> Getvalue(l),
                                       result |-> http]),
               exc |-> NoExc]
    ELSE [log |-> l, notified |-> n, exc |-> NoExc]

\* finish(is_success): the notifiers, the status line, then sys.exit
\* raises SystemExit
Finish ==
    /\ pc = "finish"
    /\ finished' = Append(finished, is_success)
    /\ \E smtp \in Delivery, http \in Delivery :
          LET e == EmailStep(log, notified, is_success, smtp)
              d == IF e.exc = NoExc
                   THEN DiscordStep(e.log, e.notified, is_success, http)
                   ELSE e
          IN  /\ notified' = d.notified
              /\ IF d.exc = NoExc
                 THEN /\ log' = IF is_success
                                THEN Logged(d.log, INFO,
                                            <<"Run finished successfully">>)
                                ELSE Logged(d.log, ERROR, <<"Run failed">>)
                      /\ raised' = SystemExit(is_success)
                 ELSE /\ log' = d.log
                      /\ raised' = d.exc
    /\ pc' = "unwind"
    /\ UNCHANGED <<config, env, runnerVars, diff_results, frame, is_success,
                   procs, caught, exitStatus>>
    /\ UNCHANGED snapraid_btrfs_args_extend

\* main(): "except Exception" around run() logs the exception and calls
\* finish(False)
MainExcept ==
    /\ pc = "unwind"
    /\ frame = "run"
    /\ Catches("Exception", raised)
    /\ log' = Logged(log, ERROR, <<"Run failed due to unexpected exception:">>)
    /\ caught' = Append(caught, [cmd |-> command, by |-> "main"])
    /\ raised' = NoExc
    /\ frame' = "handler"
    /\ is_success' = FALSE
    /\ pc' = "finish"
    /\ UNCHANGED <<config, env, runnerVars, diff_results, procs, finished,
                   exitStatus>>
    /\ UNCHANGED <<snapraid_btrfs_args_extend, notified>>

\* an exception nothing catches ends the process: SystemExit with its code
Exit ==
    /\ pc = "unwind"
    /\ ~(frame = "run" /\ Catches("Exception", raised))
    /\ exitStatus' = Append(exitStatus,
                            IF raised.cls = "SystemExit" THEN raised.code ELSE 1)
    /\ pc' = "exited"
    /\ UNCHANGED <<config, env, runnerVars, diff_results, raised, frame,
                   is_success, log, procs, caught, finished>>
    /\ UNCHANGED <<snapraid_btrfs_args_extend, notified>>

----------------------------------------------------------------------------

Next ==
    \/ Preflight
    \/ TouchStep \/ TouchRet
    \/ DiffStep \/ DiffRet
    \/ SyncStep \/ SyncRet
    \/ PoolStep \/ PoolRet
    \/ CleanupStep \/ CleanupRet
    \/ ScrubStep \/ ScrubRet
    \/ AllDone
    \/ \E s \in Streams : ChildWrite(s)
    \/ ChildExit
    \/ \E s \in Streams : TeeLog(s)
    \/ \E s \in Streams : TeeRead(s)
    \/ \E s \in Streams : TeeEmit(s)
    \/ \E s \in Streams : Join(s)
    \/ Wait
    \/ Return
    \/ Finish
    \/ MainExcept
    \/ Exit

Spec == Init /\ [][Next]_vars

----------------------------------------------------------------------------
(* Fair scheduling: one run with every step enabled, in which the child,   *)
(* each tee thread and the main thread keep running while they can         *)

InitLive ==
    /\ Init
    /\ config.touch /\ config.pool /\ config.cleanup /\ config.scrub
    /\ config.deletethreshold = 1
    /\ env.snapraid /\ env.conf /\ env.snapraid_btrfs

ChildRuns == ChildExit \/ \E s \in Streams : ChildWrite(s)

TeeRuns(s) == TeeRead(s) \/ TeeEmit(s)

MainRuns ==
    \/ Preflight
    \/ TouchStep \/ TouchRet
    \/ DiffStep \/ DiffRet
    \/ SyncStep \/ SyncRet
    \/ PoolStep \/ PoolRet
    \/ CleanupStep \/ CleanupRet
    \/ ScrubStep \/ ScrubRet
    \/ AllDone
    \/ \E s \in Streams : TeeLog(s)
    \/ \E s \in Streams : Join(s)
    \/ Wait
    \/ Return
    \/ Finish
    \/ MainExcept
    \/ Exit

SpecLive ==
    /\ InitLive
    /\ [][Next]_vars
    /\ WF_vars(ChildRuns)
    /\ WF_vars(TeeRuns("stdout"))
    /\ WF_vars(TeeRuns("stderr"))
    /\ WF_vars(MainRuns)

----------------------------------------------------------------------------
(* The notifiers: one run with every step enabled, for each choice of      *)
(* email and Discord settings                                              *)

NotifyConfigs ==
    {c @@ Defaults :
        c \in [touch : {TRUE}, pool : {TRUE}, cleanup : {TRUE}, scrub : {TRUE},
               deletethreshold : {1},
               email_sendon : {<<>>, <<"error">>, <<"success", ",", "error">>},
               smtp_host : {<<>>, <<"mail">>},
               discord_enabled : {<<>>, <<"true">>, <<"false">>},
               discord_sendon : {<<"error">>, <<"success", ",", "error">>}]}

InitNotify ==
    /\ config \in NotifyConfigs
    /\ env \in {e \in Envs : e.snapraid /\ e.conf /\ e.snapraid_btrfs}
    /\ pc = "preflight"
    /\ cpc = "idle"
    /\ command = "none"
    /\ allow = {}
    /\ child = NoChild
    /\ pipe = NoPipes
    /\ tee = NoTees
    /\ acc = NoLines
    /\ ret = 0
    /\ res = NoRes
    /\ diff_results = NoCounts
    /\ raised = NoExc
    /\ frame = "run"
    /\ is_success = FALSE
    /\ log = <<>>
    /\ procs = <<>>
    /\ caught = <<>>
    /\ finished = <<>>
    /\ exitStatus = <<>>
    /\ snapraid_btrfs_args_extend = <<>>
    /\ notified = <<>>

SpecNotify == InitNotify /\ [][Next]_vars

----------------------------------------------------------------------------
(* The argument vectors: one run with every check of the preflight passed,  *)
(* for each choice of the options that end up on a command line             *)

ArgConfigs ==
    {c @@ Defaults :
        c \in [touch : {TRUE}, pool : BOOLEAN, cleanup : {TRUE}, scrub : {TRUE},
               deletethreshold : {1},
               snapper_configs : {<<>>, <<"root">>},
               snapper_configs_file : {<<>>, <<"/etc/snapper.list">>},
               pool_dir : {<<>>, <<"/mnt/pool">>},
               plan : {<<"8", "0">>, <<"f", "u", "l", "l">>},
               older_than : {0, 30}]}

InitArgs ==
    /\ config \in ArgConfigs
    /\ env = [snapraid |-> TRUE, conf |-> TRUE, snapraid_btrfs |-> TRUE,
              snapper |-> TRUE]
    /\ pc = "preflight"
    /\ cpc = "idle"
    /\ command = "none"
    /\ allow = {}
    /\ child = NoChild
    /\ pipe = NoPipes
    /\ tee = NoTees
    /\ acc = NoLines
    /\ ret = 0
    /\ res = NoRes
    /\ diff_results = NoCounts
    /\ raised = NoExc
    /\ frame = "run"
    /\ is_success = FALSE
    /\ log = <<>>
    /\ procs = <<>>
    /\ caught = <<>>
    /\ finished = <<>>
    /\ exitStatus = <<>>
    /\ snapraid_btrfs_args_extend = <<>>
    /\ notified = <<>>

SpecArgs == InitArgs /\ [][Next]_vars

----------------------------------------------------------------------------
(* The classification of a diff output: the diff command has returned its  *)
(* lines to run(), for every list of lines up to a length                  *)

Words == {"add", "remove", "move", "update", "equal", " ", "\t"}

\* lines as readline gives them: some text, then the newline
DiffLines ==
    {<<"\n">>}
    \cup {<<a, "\n">> : a \in Words}
    \cup {<<a, b, "\n">> : a \in Words, b \in Words}

RECURSIVE Lists(_, _)
Lists(S, n) ==
    IF n = 0 THEN {<<>>}
    ELSE Lists(S, n - 1) \cup {Append(l, x) : l \in Lists(S, n - 1), x \in S}

RECURSIVE TeeLogged(_, _)
TeeLogged(l, lines) ==
    IF lines = <<>> THEN l
    ELSE TeeLogged(Logged(l, OUTPUT, rstrip(Head(lines))), Tail(lines))

InitClassify ==
    /\ config \in {c @@ Defaults :
                      c \in [touch : {FALSE}, pool : {FALSE}, cleanup : {FALSE},
                             scrub : {FALSE}, deletethreshold : {1}]}
    /\ env = [snapraid |-> TRUE, conf |-> TRUE, snapraid_btrfs |-> TRUE,
              snapper |-> TRUE]
    /\ \E lines \in Lists(DiffLines, MaxLines) :
          /\ acc = [stdout |-> lines, stderr |-> <<>>]
          /\ res = Outcome(0, {2}, "diff", lines)
          /\ procs = << [cmd |-> "diff", stdout |-> lines, stderr |-> <<>>,
                         ret |-> 0, snapraid_args |-> <<>>,
                         snapraid_btrfs_args |-> <<>>,
                         argv |-> Argv("diff", <<>>, <<>>)] >>
          /\ log = TeeLogged(<< [level |-> INFO, msg |-> <<"Run started">>],
                                [level |-> INFO, msg |-> <<"Running diff...">>] >>,
                             lines)
    /\ pc = "diff_ret"
    /\ cpc = "returned"
    /\ command = "diff"
    /\ allow = {2}
    /\ child = [state |-> "reaped", stdout |-> <<>>, stderr |-> <<>>, ret |-> 0]
    /\ pipe = [s \in Streams |-> [buf |-> <<>>, closed |-> TRUE]]
    /\ tee = [s \in Streams |-> [line |-> <<>>, state |-> "done"]]
    /\ ret = 0
    /\ diff_results = NoCounts
    /\ raised = NoExc
    /\ frame = "run"
    /\ is_success = FALSE
    /\ caught = <<>>
    /\ finished = <<>>
    /\ exitStatus = <<>>
    /\ snapraid_btrfs_args_extend = <<>>
    /\ notified = <<>>

NextClassify == DiffRet

SpecClassify == InitClassify /\ [][NextClassify]_vars

----------------------------------------------------------------------------
(* The notification payloads: run() is about to call finish, the log holds *)
(* a number of lines of child output, and both notifiers are set up for    *)
(* either outcome. A line of the log is six elements of text, each         *)
(* standing for one character.                                             *)

LogSizes == {0, 170, 171, 341, 342, 400}

OutputLog(n) == [i \in 1 .. n |-> [level |-> OUTPUT, msg |-> <<"x">>]]

PayloadConfigs ==
    {c @@ Defaults :
        c \in [touch : {FALSE}, pool : {FALSE}, cleanup : {FALSE},
               scrub : {FALSE}, deletethreshold : {1},
               email_sendon : {<<"success", ",", "error">>},
               email_maxsize : {0, 1, 2},
               smtp_host : {<<"mail">>},
               discord_enabled : {<<"true">>},
               discord_sendon : {<<"success", ",", "error">>}]}

InitPayload ==
    /\ config \in PayloadConfigs
    /\ env = [snapraid |-> TRUE, conf |-> TRUE, snapraid_btrfs |-> TRUE,
              snapper |-> TRUE]
    /\ log \in {OutputLog(n) : n \in LogSizes}
    /\ is_success \in BOOLEAN
    /\ pc = "finish"
    /\ cpc = "idle"
    /\ command = "none"
    /\ allow = {}
    /\ child = NoChild
    /\ pipe = NoPipes
    /\ tee = NoTees
    /\ acc = NoLines
    /\ ret = 0
    /\ res = NoRes
    /\ diff_results = NoCounts
    /\ raised = NoExc
    /\ frame = "run"
    /\ procs = <<>>
    /\ caught = <<>>
    /\ finished = <<>>
    /\ exitStatus = <<>>
    /\ snapraid_btrfs_args_extend = <<>>
    /\ notified = <<>>

NextPayload == Finish \/ Exit

SpecPayload == InitPayload /\ [][NextPayload]_vars

----------------------------------------------------------------------------
(* Vocabulary of the properties, over the environment and the histories    *)

Order == <<"touch", "diff", "sync", "pool", "cleanup", "scrub">>

Position(c) == CHOOSE i \in DOMAIN Order : Order[i] = c

Ran(c) == \E i \in DOMAIN procs : procs[i].cmd = c

ProcOf(c) == procs[CHOOSE i \in DOMAIN procs : procs[i].cmd = c]

\* the child exited with a code that is neither 0 nor allowed for its command
Disallowed(p) == p.ret # 0 /\ ~(p.cmd = "diff" /\ p.ret = 2)

RanOk(c) == \E i \in DOMAIN procs : procs[i].cmd = c /\ ~Disallowed(procs[i])

PreflightFails ==
    ~(env.snapraid /\ env.conf /\ env.snapraid_btrfs /\ env.snapper)

Enabled(c) ==
    CASE c = "touch" -> config.touch
      [] c = "pool" -> config.pool
      [] c = "cleanup" -> config.cleanup
      [] c = "scrub" -> config.scrub
      [] OTHER -> TRUE

\* the diff command has returned its lines to run()
DiffDone ==
    /\ RanOk("diff")
    /\ pc \notin {"preflight", "touch", "touch_ret", "diff", "diff_ret"}

\* lines of the diff's output whose first token is the kind
Count(kind) == Counter(ProcOf("diff").stdout, kind)

Removed == Count("remove")

AllZero == \A i \in DOMAIN Kinds : Count(Kinds[i]) = 0

Trips == config.deletethreshold >= 0 /\ Removed > config.deletethreshold

\* finish(False) is pending or was called
Failing ==
    \/ pc = "finish" /\ ~is_success
    \/ pc \in {"unwind", "exited"} /\ finished # <<>>
                                   /\ ~finished[Len(finished)]

\* the run was aborted after the diff, before any later command
AbortedAfterDiff == procs[Len(procs)].cmd = "diff" /\ Failing

\* C1: once the diff has returned, the run is aborted right after it, with
\* a failure outcome and before sync or any later command is spawned, if
\* and only if deletethreshold >= 0 and the diff's removed count exceeds
\* it; with the scenario's diff (2 add, 1 remove) threshold 0 aborts and
\* threshold 5 goes on to sync.
C1_ThresholdGuard ==
    DiffDone =>
        /\ AbortedAfterDiff <=> Trips
        /\ config.deletethreshold < 0 => ~AbortedAfterDiff
        /\ ProcOf("diff").stdout = ScenarioDiff /\ pc = "exited" =>
              /\ config.deletethreshold = 0 =>
                    ~Ran("sync") /\ exitStatus = <<1>>
              /\ config.deletethreshold = 5 => Ran("sync")
              /\ config.deletethreshold = 5
                    /\ (\A i \in DOMAIN procs : ~Disallowed(procs[i]))
                    => exitStatus = <<0>>

C1_Witness ==
    /\ pc = "exited"
    /\ DiffDone
    /\ ProcOf("diff").stdout = ScenarioDiff
    /\ config.deletethreshold = 0
    /\ AbortedAfterDiff
    /\ exitStatus = <<1>>

FailedCommands == {procs[i].cmd : i \in {j \in DOMAIN procs : Disallowed(procs[j])}}

StepFailed ==
    \/ PreflightFails
    \/ \E i \in DOMAIN procs : Disallowed(procs[i])
    \/ DiffDone /\ Trips

\* C4: once a step has failed (preflight, a disallowed exit code, the
\* threshold guard) no further command is spawned, and when the process
\* ends finish was called with False and the exit status is 1.
C4_AbortShortCircuit ==
    /\ [][StepFailed => procs' = procs]_vars
    /\ [](pc = "exited" /\ StepFailed =>
             /\ finished # <<>>
             /\ \A i \in DOMAIN finished : ~finished[i]
             /\ exitStatus = <<1>>)

C4_Witness ==
    /\ pc = "exited"
    /\ Ran("pool")
    /\ Disallowed(ProcOf("pool"))
    /\ config.cleanup
    /\ config.scrub
    /\ exitStatus = <<1>>

\* C5: when finish(True) was called or the exit status is 0, every enabled
\* step (touch, pool, cleanup, scrub when enabled; diff always; sync when
\* a diff count is non-zero) had its command spawned and exit with 0 or
\* an allowed code.
C5_SuccessAfterAllSteps ==
    (\/ \E i \in DOMAIN finished : finished[i]
     \/ \E i \in DOMAIN exitStatus : exitStatus[i] = 0
     \/ pc = "finish" /\ is_success)
    => /\ \A c \in {"touch", "diff", "pool", "cleanup", "scrub"} :
             Enabled(c) => RanOk(c)
       /\ RanOk("diff") /\ ~AllZero => RanOk("sync")
       /\ \A i \in DOMAIN procs : ~Disallowed(procs[i])

C5_Witness ==
    /\ pc = "exited"
    /\ exitStatus = <<0>>
    /\ Len(procs) = 6
    /\ ProcOf("diff").ret = 2

\* C6: the commands spawned so far are in the order touch, diff, sync,
\* pool, cleanup, scrub, each at most once and none of a disabled step;
\* a run that got past the preflight checks and, when enabled, a
\* successful touch has spawned diff.
C6_StepOrdering ==
    /\ \A i, j \in DOMAIN procs :
          i < j => Position(procs[i].cmd) < Position(procs[j].cmd)
    /\ \A i \in DOMAIN procs : Enabled(procs[i].cmd)
    /\ pc = "exited" /\ ~PreflightFails /\ (config.touch => RanOk("touch"))
          => Ran("diff")
    /\ PreflightFails \/ (Ran("touch") /\ ~RanOk("touch")) => ~Ran("diff")

C6_Witness ==
    /\ pc = "exited"
    /\ [i \in DOMAIN procs |-> procs[i].cmd] = <<"diff", "sync", "cleanup">>
    /\ ~config.pool
    /\ config.scrub

LaterSteps == {"pool", "cleanup", "scrub"}

\* C7: with all four counts zero sync is never spawned, the run goes on to
\* pool, cleanup and scrub (each enabled one is spawned unless a command
\* before it failed) and ends in success when none of them fails; with a
\* non-zero count and the threshold not exceeded sync is spawned.
C7_NoOpGuard ==
    DiffDone =>
        /\ AllZero => ~Ran("sync") /\ ~Trips
        /\ AllZero /\ pc = "exited" =>
              /\ \A c \in LaterSteps :
                    Enabled(c) =>
                       \/ Ran(c)
                       \/ \E i \in DOMAIN procs : Disallowed(procs[i])
              /\ (\A i \in DOMAIN procs : ~Disallowed(procs[i]))
                    => finished = <<TRUE>> /\ exitStatus = <<0>>
        /\ ~AllZero /\ ~Trips /\ pc # "sync" => Ran("sync")

C7_Witness ==
    /\ pc = "exited"
    /\ DiffDone
    /\ AllZero
    /\ Len(ProcOf("diff").stdout) = 2
    /\ [i \in DOMAIN procs |-> procs[i].cmd] = <<"diff", "pool", "cleanup", "scrub">>
    /\ exitStatus = <<0>>

\* C8: when one of the three executables or the snapraid config is
\* missing, no command is ever spawned, the run goes from the checks
\* straight to finish(False) and the process ends with status 1.
C8_Preflight ==
    PreflightFails =>
        /\ procs = <<>>
        /\ pc \in {"preflight", "finish", "unwind", "exited"}
        /\ pc = "finish" => ~is_success
        /\ pc \in {"unwind", "exited"} => finished = <<FALSE>>
        /\ pc = "exited" => exitStatus = <<1>>

C8_Witness ==
    /\ pc = "exited"
    /\ env.snapraid /\ env.conf /\ env.snapraid_btrfs /\ ~env.snapper
    /\ procs = <<>>
    /\ exitStatus = <<1>>

\* the messages the log sink received at a level, in order
RECURSIVE Received(_, _)
Received(l, level) ==
    IF l = <<>> THEN <<>>
    ELSE IF Head(l).level = level
         THEN <<Head(l).msg>> \o Received(Tail(l), level)
         ELSE Received(Tail(l), level)

\* the lines the children spawned so far wrote to a stream, in order and
\* as the sink shows them
RECURSIVE Written(_, _)
Written(ps, s) ==
    IF ps = <<>> THEN <<>>
    ELSE [i \in DOMAIN Head(ps)[s] |-> rstrip(Head(ps)[s][i])]
         \o Written(Tail(ps), s)

\* C9: when snapraid_btrfs_command returns or raises, the log sink has
\* received every line the child wrote to stdout and to stderr, each once
\* and in the order of its stream, and the out list holds exactly the
\* child's stdout lines, in order and unchanged.
C9_TeeComplete ==
    cpc = "returned" =>
        LET p == procs[Len(procs)]
        IN  /\ Received(log, OUTPUT) = Written(procs, "stdout")
            /\ Received(log, OUTERR) = Written(procs, "stderr")
            /\ Len(Received(log, OUTPUT)) + Len(Received(log, OUTERR))
                  >= Len(p.stdout) + Len(p.stderr)
            /\ acc["stdout"] = p.stdout
            /\ res.kind = "return" => res.out = p.stdout

\* an stderr line reached the sink between two stdout lines
C9_Witness ==
    /\ cpc = "returned"
    /\ Len(procs[Len(procs)].stdout) = 3
    /\ Len(procs[Len(procs)].stderr) = 1
    /\ \E i \in DOMAIN log :
          /\ i > 1 /\ i < Len(log)
          /\ log[i].level = OUTERR
          /\ log[i - 1].level = OUTPUT
          /\ log[i + 1].level = OUTPUT

\* C10: from the moment the parent is about to read the exit status until
\* snapraid_btrfs_command has ended, both tee threads have seen the end of
\* their stream and finished, and nothing is left in either pipe.
C10_JoinBeforeExitCode ==
    cpc \in {"wait", "classify", "returned"} =>
        \A s \in Streams :
            /\ tee[s].state = "done"
            /\ pipe[s].buf = <<>>
            /\ pipe[s].closed
            /\ acc[s] = procs[Len(procs)][s]

C10_Witness ==
    /\ cpc = "classify"
    /\ acc["stdout"] # <<>>
    /\ acc["stderr"] # <<>>
    /\ \A s \in Streams : tee[s].state = "done"

\* C11: with pipes of bounded capacity, under fair scheduling a running
\* child always gets to exit (it is never blocked for good on a full
\* pipe), each tee thread ends once its stream is closed, and every call
\* of snapraid_btrfs_command comes to its return or raise.
C11_DrainTerminates ==
    /\ child.state = "running" ~> child.state = "exited"
    /\ \A s \in Streams :
          (tee[s].state = "reading" /\ pipe[s].closed) ~> tee[s].state = "done"
    /\ cpc = "tee_stdout" ~> cpc = "returned"

\* the child cannot write to either stream until a tee thread reads
C11_Witness ==
    /\ child.state = "running"
    /\ child["stdout"] # <<>>
    /\ \A s \in Streams : child[s] = <<>> \/ Len(pipe[s].buf) = PipeCap
    /\ pipe["stderr"].buf # <<>>
    /\ \A s \in Streams : tee[s].state = "reading"

\* no child is running and no tee thread is draining
Quiet ==
    /\ child.state \in {"none", "reaped"}
    /\ \A s \in Streams : tee[s].state \in {"unstarted", "done"}
    /\ \A s \in Streams : pipe[s].buf = <<>>

\* C12: a command is spawned only when the child of the command before it
\* has been waited for and both of its tee threads have finished, and
\* whenever the main thread is outside snapraid_btrfs_command no child
\* runs and no tee thread drains.
C12_OneCommandAtATime ==
    /\ [][procs' # procs => Quiet]_vars
    /\ [](cpc \in {"idle", "returned"} => Quiet)

\* sync has just been spawned after a diff that wrote to both streams
C12_Witness ==
    /\ Len(procs) = 2
    /\ procs[1].cmd = "diff" /\ procs[1].stderr # <<>> /\ procs[1].stdout # <<>>
    /\ procs[2].cmd = "sync"
    /\ cpc = "tee_stdout"
    /\ child.state = "running"

----------------------------------------------------------------------------
(* The finalizer and its notifiers *)

\* what finish was last called with
Outcome_finished == finished[Len(finished)]

Sent(via) == {i \in DOMAIN notified : notified[i].via = via}

HasLine(msg) == \E i \in DOMAIN log : log[i].msg = msg

StatusLine(ok) ==
    IF ok THEN [level |-> INFO, msg |-> <<"Run finished successfully">>]
    ELSE [level |-> ERROR, msg |-> <<"Run failed">>]

\* the trigger of a notifier matches the outcome finish was called with
EmailDue == Contains(config.email_sendon, Trigger(Outcome_finished))

DiscordDue ==
    /\ config.discord_enabled = <<"true">>
    /\ Contains(config.discord_sendon, Trigger(Outcome_finished))

\* C13: whatever the notifiers are configured to do and whatever their
\* delivery does, the process ends with exit code 0 when finish was called
\* with success and 1 when it was called with failure; the status line is
\* the last line logged; a failed delivery is logged, and a failed email
\* does not keep the Discord notification that is due from being sent.
C13_FinalizerIntegrity ==
    /\ (finished # <<>> /\ pc = "unwind") => raised.cls = "SystemExit"
    /\ pc = "exited" =>
          /\ finished # <<>>
          /\ exitStatus = <<IF Outcome_finished THEN 0 ELSE 1>>
          /\ log[Len(log)] = StatusLine(Outcome_finished)
          /\ \A i \in Sent("email") :
                notified[i].result = "failed" =>
                   /\ HasLine(<<"Failed to send email">>)
                   /\ DiscordDue => Sent("discord") # {}
          /\ \A i \in Sent("discord") :
                notified[i].result = "failed" => HasLine(<<"HTTP Error">>)

C13_Witness ==
    /\ pc = "exited"
    /\ exitStatus = <<0>>
    /\ \E i \in Sent("email") : notified[i].result = "failed"
    /\ \E i \in Sent("discord") : notified[i].result = "failed"

\* C14: at the end of finish, the email notifier has been dispatched
\* exactly when its trigger matches the outcome, and the Discord notifier
\* has been dispatched exactly when it is enabled and its trigger matches
\* the outcome, whatever the email trigger configuration is.
C14_IndependentDispatch ==
    pc = "exited" =>
       /\ EmailDue <=> Sent("email") # {}
       /\ DiscordDue <=> Sent("discord") # {}

----------------------------------------------------------------------------
(* The command lines *)

Scrubs == {i \in DOMAIN procs : procs[i].cmd = "scrub"}

Keys(d) == [i \in DOMAIN d |-> d[i].k]

\* the plan is a number: digits only
Numeric(plan) == plan # <<>> /\ \A i \in DOMAIN plan : plan[i] \in Digits

HasFlag(argv, flag) == \E i \in DOMAIN argv : argv[i] = flag

\* C15: the scrub command gets plan and older-than when the plan is a
\* number; it gets the plan only, and no older-than flag, when the plan is
\* a word, and then a warning has been logged if older-than is positive; a
\* scrub that exits with a code other than 0 is caught in run(), the run
\* ends with exit code 1 and never logs "All done".
C15_ScrubArguments ==
    \A i \in Scrubs :
       LET p == procs[i]
       IN  /\ config.scrub
           /\ Numeric(config.plan) =>
                 /\ Keys(p.snapraid_args) = <<"plan", "older-than">>
                 /\ p.snapraid_args[1].v = config.plan
                 /\ p.snapraid_args[2].v = config.older_than
                 /\ HasFlag(p.argv, <<"--", "plan">>)
                 /\ HasFlag(p.argv, <<"--", "older-than">>)
                 /\ HasFlag(p.argv, <<ToString(config.older_than)>>)
           /\ ~Numeric(config.plan) =>
                 /\ Keys(p.snapraid_args) = <<"plan">>
                 /\ p.snapraid_args[1].v = config.plan
                 /\ HasFlag(p.argv, <<"--", "plan">>)
                 /\ ~HasFlag(p.argv, <<"--", "older-than">>)
                 /\ config.older_than > 0 =>
                       \E j \in DOMAIN log : log[j].level = WARNING
           /\ (p.ret # 0 /\ pc = "exited") =>
                 /\ exitStatus = <<1>>
                 /\ \E j \in DOMAIN caught :
                       caught[j] = [cmd |-> "scrub", by |-> "run"]
                 /\ ~HasLine(<<"All done">>)

C15_Witness ==
    /\ pc = "exited"
    /\ Scrubs # {}
    /\ config.plan = <<"f", "u", "l", "l">>
    /\ config.older_than = 30
    /\ procs[Len(procs)].ret = 1
    /\ \E j \in DOMAIN log : log[j].level = WARNING

\* the flags of a dict as they appear on the command line: the i-th item
\* gives elements 2i-1 (its name) and 2i (its value as text)
FlagList(d) ==
    [j \in 1 .. 2 * Len(d) |->
        LET item == d[(j + 1) \div 2]
        IN  IF j % 2 = 1 THEN <<"--", item.k>>
            ELSE IF item.t = "int" THEN <<ToString(item.v)>> ELSE item.v]

ConnectionFlags ==
    << <<"--quiet">>,
       <<"--conf">>, config.snapraid_config,
       <<"--snapper-path">>, config.snapper_executable,
       <<"--snapraid-path">>, config.snapraid_executable >>

\* C17: the argument vector of every command spawned is the program path,
\* the fixed flags (quiet, config path, snapper path, snapraid path), the
\* snapraid-btrfs flags of the caller in insertion order, the command
\* name, "--quiet" unless the command is cleanup, and the snapraid flags
\* of the caller in insertion order.
C17_ArgvOrder ==
    \A i \in DOMAIN procs :
       LET p == procs[i]
           n == 1 + Len(ConnectionFlags) + 2 * Len(p.snapraid_btrfs_args)
           after == SubSeq(p.argv, n + 2, Len(p.argv))
       IN  /\ p.argv[1] = config.snapraid_btrfs_executable
           /\ SubSeq(p.argv, 2, 1 + Len(ConnectionFlags)) = ConnectionFlags
           /\ SubSeq(p.argv, 2 + Len(ConnectionFlags), n)
                 = FlagList(p.snapraid_btrfs_args)
           /\ p.argv[n + 1] = <<p.cmd>>
           /\ after = IF p.cmd = "cleanup"
                      THEN FlagList(p.snapraid_args)
                      ELSE << <<"--quiet">> >> \o FlagList(p.snapraid_args)
           /\ p.cmd = "cleanup" => after = <<>>

C17_Witness ==
    /\ Len(procs) = 5
    /\ procs[4].cmd = "cleanup"
    /\ Len(procs[4].snapraid_btrfs_args) = 3
    /\ procs[5].cmd = "scrub"
    /\ Len(procs[5].snapraid_args) = 2
    /\ Len(procs[5].argv) = 20

\* C20: the snapraid-btrfs flags a command gets are those the
\* configuration gives it whatever ran before it: the pool-dir flag goes
\* to the pool command only, and every other command gets the flags built
\* before the first command.
C20_StepIndependentFlags ==
    \A i \in DOMAIN procs :
       LET p == procs[i]
       IN  p.cmd # "pool" =>
              /\ ~HasFlag(p.argv, <<"--", "pool-dir">>)
              /\ p.snapraid_btrfs_args = ArgsExtend(config)

----------------------------------------------------------------------------
(* The classification of the diff output *)

DiffLinesOut == ProcOf("diff").stdout

\* the leading whitespace-delimited token of a line
LeadingToken(line) ==
    LET black == {i \in DOMAIN line : line[i] \notin Whitespace}
    IN  IF black = {} THEN <<>>
        ELSE LET first == CHOOSE i \in black : \A j \in black : i <= j
                 last == CHOOSE i \in first .. Len(line) :
                            /\ \A j \in first .. i : j \in black
                            /\ i + 1 \notin black
             IN  SubSeq(line, first, last)

\* the text of a line before its first space, the whole line when it has
\* none
BeforeFirstSpace(line) ==
    LET spaces == {i \in DOMAIN line : line[i] = " "}
    IN  IF spaces = {} THEN line
        ELSE SubSeq(line, 1, (CHOOSE i \in spaces : \A j \in spaces : i <= j) - 1)

KindSet == {"add", "remove", "move", "update"}

Total == diff_results["add"] + diff_results["remove"]
         + diff_results["move"] + diff_results["update"]

\* C16 as stated: once the diff output is classified, the mapping has
\* exactly the four keys add, remove, move, update, each count is the
\* number of lines whose leading whitespace-delimited token is the kind,
\* and the counts add up to at most the number of lines.
C16_WhitespaceToken ==
    DiffDone =>
       /\ DOMAIN diff_results = KindSet
       /\ \A k \in KindSet :
             diff_results[k] =
                Cardinality({i \in DOMAIN DiffLinesOut :
                                LeadingToken(DiffLinesOut[i]) = <<k>>})
       /\ Total <= Len(DiffLinesOut)

\* C16 amended: once the diff output is classified, the mapping has
\* exactly the four keys add, remove, move, update, each count is the
\* number of lines whose text before the first space character is the
\* kind, every count is at least 0 and the counts add up to at most the
\* number of lines.
C16_Classification ==
    DiffDone =>
       /\ DOMAIN diff_results = KindSet
       /\ \A k \in KindSet :
             /\ diff_results[k] >= 0
             /\ diff_results[k] =
                   Cardinality({i \in DOMAIN DiffLinesOut :
                                   BeforeFirstSpace(DiffLinesOut[i]) = <<k>>})
       /\ Total <= Len(DiffLinesOut)

C16_Witness ==
    /\ DiffDone
    /\ DiffLinesOut = << <<"remove", " ", "\n">>, <<" ", "remove", "\n">> >>
    /\ diff_results = [add |-> 0, remove |-> 1, move |-> 0, update |-> 0]

----------------------------------------------------------------------------
(* The payload of the notifications *)

Budget == config.email_maxsize * 1024

\* the lines of a text that end between two positions of it
Omitted(text, from, to) ==
    Cardinality({i \in from .. to : text[i] = "\n"})

\* the payload is the text cut down to its first and last budget/2
\* characters, with the number of lines left out between them
Truncated(payload, text, budget) ==
    LET half == budget \div 2
        n == Len(text)
        m == Len(payload)
    IN  /\ m = 3 + half + 5 + half
        /\ SubSeq(payload, 4, 3 + half) = SubSeq(text, 1, half)
        /\ SubSeq(payload, m - half + 1, m) = SubSeq(text, n - half + 1, n)
        /\ payload[3 + half + 3] = ToString(Omitted(text, half + 1, n - half))

Delivered(i) == notified[i].result \in Delivery

\* C18: the email notifier and the Discord notifier both get the log cut
\* down to the size budget: a log longer than the budget is passed as its
\* first and last budget/2 characters with the number of lines left out,
\* a log that is not longer is passed whole.
C18_BothTruncated ==
    \A i \in DOMAIN notified :
       (Delivered(i) /\ Budget > 0) =>
          IF Len(notified[i].text) > Budget
          THEN Truncated(notified[i].payload, notified[i].text, Budget)
          ELSE notified[i].payload = notified[i].text

\* the email half of C18 alone
EmailTruncated ==
    \A i \in Sent("email") :
       (Delivered(i) /\ Budget > 0) =>
          IF Len(notified[i].text) > Budget
          THEN Truncated(notified[i].payload, notified[i].text, Budget)
          ELSE notified[i].payload = notified[i].text

----------------------------------------------------------------------------
(* One finalization *)

\* C19: on every path finish is called once: never twice, and exactly once
\* by the time the process has ended; each notifier is dispatched at most
\* once and one exit code is set; and once finish has raised SystemExit the
\* only step left is the end of the process, with no handler of main
\* catching it and no second call of finish.
C19_SingleFinalization ==
    /\ [](/\ Len(finished) <= 1
          /\ Len(exitStatus) <= 1
          /\ Cardinality(Sent("email")) <= 1
          /\ Cardinality(Sent("discord")) <= 1)
    /\ [](pc = "exited" => Len(finished) = 1 /\ Len(exitStatus) = 1)
    /\ [][raised.cls = "SystemExit" =>
            /\ pc' = "exited"
            /\ finished' = finished
            /\ caught' = caught
            /\ notified' = notified]_vars

C19_Witness ==
    /\ pc = "exited"
    /\ \E i \in DOMAIN caught : caught[i].by = "main"
    /\ finished = <<FALSE>>
    /\ frame = "handler"
    /\ Sent("email") # {}
    /\ Sent("discord") # {}

====
